---- MODULE Spec2Model ----
(***************************************************************************)
(* seance: cross-origin shared storage over window.postMessage.            *)
(*                                                                         *)
(* Observable (src/lib/core/Observable.js) is the server: it keeps the     *)
(* pool of candidate origins, the observatory of incorporated origins and  *)
(* answers MOUNT / UNMOUNT / SYN / GET / SET / DELETE messages.            *)
(* Observer (src/unnamed/part_001) is the client: it keeps the preflight   *)
(* flag, the responses registry and the message id generator.              *)
(*                                                                         *)
(* JavaScript values are modelled as follows.  A Map is the sequence of    *)
(* its entries in insertion order.  A payload is a tagged record           *)
(* [kind, val] so that values of different JavaScript types stay           *)
(* comparable.  The destructuring assignment of Observable.js line 85 and  *)
(* the chained assignment of line 160 are read as binding id, type,        *)
(* payload, result and error, as the surrounding code uses them.           *)
(* this.proxyEl of the Observer is read as the frame renderFrame() made,   *)
(* so that emit posts to the frame's window.  A callback taken out of the  *)
(* responses registry is called without a receiver: onAcknowledge called   *)
(* that way does not write the Observer's preflight flag.                  *)
(*                                                                         *)
(* Each step records in srvLast / cliLast what the handler did (the        *)
(* postMessage calls, the localStorage calls, the callbacks invoked, the   *)
(* state before), so that a property of one handler run is a state         *)
(* predicate.                                                              *)
(***************************************************************************)
EXTENDS Integers, Sequences, FiniteSets, TLC

(***************************************************************************)
(* Bounds of the model                                                     *)
(***************************************************************************)
\* longest candidate pool handed to the Observable constructor
MaxPool == 2
\* longest payload array of an inbound action message
MaxMsgPayload == 1
\* longest payload array of a direct call of get / set / delete
MaxPayload == 2
\* largest id the Observer's generator hands out
MaxId == 2
\* the invocations of one callback are counted up to this number
MaxCount == 2

(***************************************************************************)
(* Universes                                                               *)
(***************************************************************************)
Origins == {"https://app1.example", "https://app2.example", "https://evil.example"}
\* message.origin of an event that carries no origin (falsy)
NoOrigin == ""
\* targetOrigin of a postMessage call made without one
NoTarget == "undefined"
\* the origins a pool is made of
PoolOrigins == {"https://app1.example", "https://app2.example"}
Keys == {"a", "b"}
Values == {"v1", "v2"}
\* the keys, values and (truthy) ids of inbound messages
MsgKeys == {"a"}
MsgValues == {"v1"}
MsgIds == {1, 7}
\* JavaScript null, as a stored value or an error field
null == "null"

\* ../utils EVENT_TYPES, QUERY_TYPES and IDENTIFIERS
MOUNT == "MOUNT"
UNMOUNT == "UNMOUNT"
SYN == "SYN"
ACK == "ACK"
CLOSE == "CLOSE"
QUERY_TYPES == [GET |-> "GET", SET |-> "SET", DELETE |-> "DELETE"]
DESTROY_ID == -1

CONN_FULFILLED == "CONN_FULFILLED"
\* ../utils generateID: the first id of the generator and the id after one
FirstId == 1
NextID(id) == id + 1
\* ../utils generateUUID
Uuid == "uuid"
\* an id that is null or undefined
NullId == -2
\* the parentOrigin option of the Observer
ParentOrigin == "https://store.example"
\* this.onAcknowledge, and a callback argument left out
OnAcknowledge == "onAcknowledge"
NoCallback == "undefined"
\* the object { type: MOUNT, payload: uuid } on the wire
MountObject == "{type:MOUNT,payload:uuid}"

\* a type no case of the dispatcher matches
BogusType == "BOGUS"
\* a missing (falsy) type
NoType == ""

SeqsUpTo(S, n) == UNION {[1..k -> S] : k \in 0..n}

(***************************************************************************)
(* JavaScript values                                                       *)
(***************************************************************************)
Undefined == [kind |-> "undefined", val |-> <<>>]
Null == [kind |-> "null", val |-> <<>>]
Str(s) == [kind |-> "string", val |-> <<s>>]
\* a truthy number: not iterable
Num == [kind |-> "number", val |-> <<>>]
\* an array of strings (keys), of { key, value } objects (pairs) or of
\* { [key]: outcome } objects (the entries of a result)
StrArr(s) == [kind |-> "array of strings", val |-> s]
ObjArr(s) == [kind |-> "array of pairs", val |-> s]
Arr(s) == [kind |-> "array of entries", val |-> s]
ArrayKinds == {"array of strings", "array of pairs", "array of entries"}

Truthy(v) == v.kind \notin {"undefined", "null"}
IsArray(v) == v.kind \in ArrayKinds
\* what for ... of accepts: an array, or a string (not sent by this model)
Iterable(v) == IsArray(v)

Pair(k, v) == [key |-> k, value |-> v]
\* the object { [key]: item } pushed on a result array
Entry(k, v) == [key |-> k, val |-> v]

(***************************************************************************)
(* Map                                                                     *)
(***************************************************************************)
MapHas(m, k) == \E i \in 1..Len(m) : m[i].key = k

RECURSIVE MapDelete(_, _)
MapDelete(m, k) ==
  IF m = <<>> THEN <<>>
  ELSE IF Head(m).key = k THEN Tail(m)
  ELSE <<Head(m)>> \o MapDelete(Tail(m), k)

MapSet(m, k, v) ==
  IF MapHas(m, k)
  THEN [i \in 1..Len(m) |-> IF m[i].key = k THEN [key |-> k, value |-> v] ELSE m[i]]
  ELSE Append(m, [key |-> k, value |-> v])

MapKeys(m) == {m[i].key : i \in 1..Len(m)}

MapGet(m, k) == m[CHOOSE i \in 1..Len(m) : m[i].key = k].value

(***************************************************************************)
(* Envelope codec (../utils serialize / deserialize)                       *)
(***************************************************************************)
Serialize(obj) == <<"json", obj>>
Deserialize(str) == str[2]
\* message.data of an event that carries none (falsy)
NoData == <<>>
\* message.data that is not a string
NotAString == <<"object">>
IsString(data) == Len(data) > 0 /\ data[1] = "json"

VARIABLES
  \* Observable
  pool,          \* this.pool: the origins array of the constructor
  observatory,   \* this.observatory: Map origin -> { origin }
  srvListeners,  \* the listeners init() registered on window
  unloaded,      \* the beforeunload event of the Observable's window has fired
  store,         \* localStorage of the Observable's origin
  srvLast,       \* what the last Observable step did
  \* Observer
  preflight,     \* this.preflight: null or TIMERS.CONN_FULFILLED
  responses,     \* this.responses: Map id -> callback
  messageId,     \* this.messageId: the next id of the generator
  proxyEl,       \* this.proxyEl: null until init() has rendered the frame
  handle,        \* the application holds a { get, set, delete } handle
  invocations,   \* how often the callback of each id has been invoked
  cliLast,       \* what the last Observer step did
  \* the transport between the two windows
  toFrame,       \* postMessage calls on the frame's window not yet dispatched
  toParent       \* postMessage calls on window.parent not yet dispatched

srvVars == <<pool, observatory, srvListeners, unloaded, store, srvLast>>
cliVars == <<preflight, responses, messageId, proxyEl, handle, invocations, cliLast>>
netVars == <<toFrame, toParent>>
vars == <<srvVars, cliVars, netVars>>

(***************************************************************************)
(* Observable: the state a handler works on.  oracle[n] tells whether the  *)
(* n-th localStorage call of the step throws; emitted collects the         *)
(* postMessage calls, calls the localStorage calls, action the storage     *)
(* action processAction invoked, ret what the action returned, thrown the  *)
(* message of an exception on its way out, caught the message of the       *)
(* exception processAction caught.                                         *)
(***************************************************************************)
Handler(oracle) ==
  [pool |-> pool, observatory |-> observatory, store |-> store, oracle |-> oracle,
   emitted |-> <<>>, calls |-> <<>>, action |-> "none", ret |-> Undefined,
   thrown |-> null, caught |-> null]

Response(id, result, error) == [id |-> id, result |-> result, error |-> error]
Request(sender, id, type, payload) ==
  [sender |-> sender, id |-> id, type |-> type, payload |-> payload]

\* Observable.emit: one postMessage of the serialized response to origin
Observable_emit(st, response, origin) ==
  [st EXCEPT !.emitted =
     Append(@, [data |-> Serialize(Response(response.id, response.result, response.error)),
                target |-> origin])]

\* this.pool.find(observer => observer === origin), as a truth value
Prospect(st, origin) ==
  origin # NoOrigin /\ \E i \in 1..Len(st.pool) : st.pool[i] = origin

\* incorporate with the observatory kept as a list and no membership check
incorporateUnchecked(st, origin, id) ==
  IF ~Prospect(st, origin)
  THEN st
  ELSE Observable_emit(
         [st EXCEPT !.observatory = Append(@, [key |-> origin, value |-> [origin |-> origin]])],
         Response(id, Str(ACK), null), origin)

\* incorporate that takes any origin, in the pool or not
incorporateAnyOrigin(st, origin, id) ==
  IF origin = NoOrigin \/ MapHas(st.observatory, origin)
  THEN st
  ELSE Observable_emit(
         [st EXCEPT !.observatory = MapSet(@, origin, [origin |-> origin])],
         Response(id, Str(ACK), null), origin)

incorporate(st, origin, id) ==
  IF ~Prospect(st, origin) \/ MapHas(st.observatory, origin)
  THEN st
  ELSE Observable_emit(
         [st EXCEPT !.observatory = MapSet(@, origin, [origin |-> origin])],
         Response(id, Str(ACK), null), origin)

\* detach that forgets every incorporated origin
detachAll(st, origin) ==
  IF MapHas(st.observatory, origin)
  THEN [st EXCEPT !.observatory = <<>>]
  ELSE st

detach(st, origin) ==
  IF MapHas(st.observatory, origin)
  THEN [st EXCEPT !.observatory = MapDelete(@, origin)]
  ELSE st

(***************************************************************************)
(* Storage actions                                                         *)
(***************************************************************************)
\* does the next localStorage call throw
Throws(st) ==
  LET n == Len(st.calls) + 1 IN n <= Len(st.oracle) /\ st.oracle[n]

Logged(st, fn, key) ==
  [st EXCEPT !.calls = Append(@, [fn |-> fn, key |-> key, threw |-> Throws(st)])]

\* for ... of over something that is not iterable
NotIterable(st) == [st EXCEPT !.thrown = "payload is not iterable", !.ret = Undefined]

\* get that gives up at the first key whose lookup fails
RECURSIVE GetLoopAbort(_, _, _)
GetLoopAbort(st, keys, result) ==
  IF keys = <<>> THEN [st EXCEPT !.ret = Arr(result)]
  ELSE LET key == Head(keys) IN
       IF Throws(st)
       THEN [Logged(st, "getItem", key) EXCEPT !.ret = Arr(Append(result, Entry(key, null)))]
       ELSE GetLoopAbort(Logged(st, "getItem", key), Tail(keys),
                         Append(result, Entry(key, st.store[key])))

RECURSIVE GetLoop(_, _, _)
GetLoop(st, keys, result) ==
  IF keys = <<>> THEN [st EXCEPT !.ret = Arr(result)]
  ELSE LET key == Head(keys) IN
       IF Throws(st)
       THEN GetLoop(Logged(st, "getItem", key), Tail(keys),
                    Append(result, Entry(key, null)))
       ELSE GetLoop(Logged(st, "getItem", key), Tail(keys),
                    Append(result, Entry(key, st.store[key])))

Observable_get(st, payload) ==
  IF ~Iterable(payload) THEN NotIterable(st)
  ELSE GetLoop(st, payload.val, <<>>)

RECURSIVE SetLoop(_, _, _)
SetLoop(st, pairs, result) ==
  IF pairs = <<>> THEN [st EXCEPT !.ret = Arr(result)]
  ELSE LET key == Head(pairs).key
           value == Head(pairs).value IN
       IF Throws(st)
       THEN SetLoop(Logged(st, "setItem", key), Tail(pairs),
                    Append(result, Entry(key, "false")))
       ELSE SetLoop([Logged(st, "setItem", key) EXCEPT !.store[key] = value],
                    Tail(pairs), Append(result, Entry(key, "true")))

Observable_set(st, payload) ==
  IF ~Iterable(payload) THEN NotIterable(st)
  ELSE SetLoop(st, payload.val, <<>>)

RECURSIVE DeleteLoop(_, _, _)
DeleteLoop(st, keys, result) ==
  IF keys = <<>> THEN [st EXCEPT !.ret = Arr(result)]
  ELSE LET key == Head(keys) IN
       IF Throws(st)
       THEN DeleteLoop(Logged(st, "removeItem", key), Tail(keys),
                       Append(result, Entry(key, "false")))
       ELSE DeleteLoop([Logged(st, "removeItem", key) EXCEPT !.store[key] = null],
                       Tail(keys), Append(result, Entry(key, "true")))

Observable_delete(st, payload) ==
  IF ~Iterable(payload) THEN NotIterable(st)
  ELSE DeleteLoop(st, payload.val, <<>>)

\* type.toLowerCase()
ToLowerCase(type) ==
  CASE type = "GET" -> "get"
    [] type = "SET" -> "set"
    [] type = "DELETE" -> "delete"
    [] OTHER -> type

\* this[action](payload)
Invoke(st, action, payload) ==
  LET s == [st EXCEPT !.action = action] IN
  CASE action = "get" -> Observable_get(s, payload)
    [] action = "set" -> Observable_set(s, payload)
    [] action = "delete" -> Observable_delete(s, payload)
    [] OTHER -> [s EXCEPT !.thrown = "this[action] is not a function"]

\* processAction without the try / catch around the action
processActionNoCatch(st, request, origin) ==
  LET action == ToLowerCase(request.type)
      done == Invoke(st, action, request.payload)
  IN IF done.thrown # null THEN done
     ELSE Observable_emit(done, Response(request.id, done.ret, null), origin)

processAction(st, request, origin) ==
  LET action == ToLowerCase(request.type)
      done == Invoke(st, action, request.payload)
      result == IF done.thrown = null THEN done.ret ELSE Null
      error == done.thrown
  IN Observable_emit([done EXCEPT !.thrown = null, !.caught = error],
                     Response(request.id, result, error), origin)

\* Object.keys(QUERY_TYPES)
QueryTypeKeys == DOMAIN QUERY_TYPES

\* !id: an id is falsy when it is missing or 0
FalsyId(id) == id = 0

\* onMessage without the check that the sender is incorporated
onMessageUngated(st, message) ==
  IF message.origin = NoOrigin \/ message.data = NoData THEN st
  ELSE LET request == Deserialize(message.data)
           origin == message.origin IN
       IF FalsyId(request.id) \/ request.type = NoType \/ ~Truthy(request.payload)
       THEN st
       ELSE CASE request.type = MOUNT -> incorporate(st, origin, request.id)
              [] request.type = UNMOUNT -> detach(st, origin)
              [] request.type = SYN ->
                   Observable_emit(st, Response(request.id, Str(ACK), null), NoTarget)
              [] request.type \in QueryTypeKeys /\ request.type \notin {MOUNT, UNMOUNT, SYN} ->
                   processAction(st, request, origin)
              [] OTHER -> st

onMessage(st, message) ==
  IF message.origin = NoOrigin \/ message.data = NoData THEN st
  ELSE IF ~MapHas(st.observatory, message.origin) THEN st
  ELSE LET request == Deserialize(message.data)
           origin == message.origin IN
       IF FalsyId(request.id) \/ request.type = NoType \/ ~Truthy(request.payload)
       THEN st
       ELSE CASE request.type = MOUNT -> incorporate(st, origin, request.id)
              [] request.type = UNMOUNT -> detach(st, origin)
              [] request.type = SYN ->
                   Observable_emit(st, Response(request.id, Str(ACK), null), NoTarget)
              [] request.type \in QueryTypeKeys /\ request.type \notin {MOUNT, UNMOUNT, SYN} ->
                   processAction(st, request, origin)
              [] OTHER -> st

RECURSIVE Broadcast(_, _)
Broadcast(st, entries) ==
  IF entries = <<>> THEN st
  ELSE Broadcast(
         Observable_emit(st, Response(DESTROY_ID, Str(CLOSE), null),
                         Head(entries).value.origin),
         Tail(entries))

\* a function object made by .bind(this) at a line of the source: every
\* evaluation of a bind expression makes a new object
Bound(method, line) == [method |-> method, line |-> line]
Listener(event, fn) == [event |-> event, fn |-> fn]
AddEventListener(ls, event, fn) == ls \cup {Listener(event, fn)}
RemoveEventListener(ls, event, fn) == ls \ {Listener(event, fn)}
Listening(ls, event) == \E l \in ls : l.event = event

\* the listeners left on window once beforeDestroy has run
DestroyedListeners(ls) ==
  RemoveEventListener(
    RemoveEventListener(ls, "message", Bound("onMessage", 127)),
    "beforeunload", Bound("beforeDestroy", 132))

\* beforeDestroy that notifies the pool instead of the observatory
beforeDestroyPool(st) ==
  Broadcast(st, [i \in 1..Len(st.pool) |->
                   [key |-> st.pool[i], value |-> [origin |-> st.pool[i]]]])

beforeDestroy(st) == Broadcast(st, st.observatory)

RECURSIVE IncorporateAll(_, _)
\* this.pool.forEach(this.incorporate.bind(this)): incorporate(element, index)
IncorporateAll(st, index) ==
  IF index >= Len(st.pool) THEN st
  ELSE IncorporateAll(incorporate(st, st.pool[index + 1], index), index + 1)

InitListeners(ls) ==
  AddEventListener(
    AddEventListener(ls, "message", Bound("onMessage", 33)),
    "beforeunload", Bound("beforeDestroy", 38))

(***************************************************************************)
(* Observable: steps                                                       *)
(***************************************************************************)
NoMessage == [origin |-> NoOrigin, data |-> NoData]

Record(op, message, arg, st0, st) ==
  [op |-> op, message |-> message, arg |-> arg, oracle |-> st0.oracle,
   obsBefore |-> st0.observatory, storeBefore |-> st0.store,
   emitted |-> st.emitted, action |-> st.action, calls |-> st.calls,
   ret |-> st.ret, thrown |-> st.thrown, caught |-> st.caught]

\* the fields of the Observable after a handler has run
Apply(op, message, arg, st0, st) ==
  /\ observatory' = st.observatory
  /\ store' = st.store
  /\ srvLast' = Record(op, message, arg, st0, st)
  /\ pool' = pool

\* a step of the Observable with the environment as the other window: what
\* it posts is recorded in srvLast and not queued
Commit(op, message, arg, st0, st) ==
  /\ Apply(op, message, arg, st0, st)
  /\ UNCHANGED cliVars
  /\ UNCHANGED netVars

\* init()
ObservableInit ==
  /\ srvListeners = {}
  /\ ~unloaded
  /\ LET st0 == Handler(<<>>) IN
     Commit("init", NoMessage, Undefined, st0, IncorporateAll(st0, 0))
  /\ srvListeners' = InitListeners(srvListeners)
  /\ UNCHANGED unloaded

\* a message event on the Observable's window
MessageEvent(message, oracle) ==
  /\ Listening(srvListeners, "message")
  /\ LET st0 == Handler(oracle) IN
     Commit("onMessage", message, Undefined, st0, onMessage(st0, message))
  /\ UNCHANGED <<srvListeners, unloaded>>

\* the beforeunload event on the Observable's window
BeforeUnloadEvent ==
  /\ Listening(srvListeners, "beforeunload")
  /\ LET st0 == Handler(<<>>) IN
     Commit("beforeDestroy", NoMessage, Undefined, st0, beforeDestroy(st0))
  /\ srvListeners' = DestroyedListeners(srvListeners)
  /\ unloaded' = TRUE

\* a direct call of a storage action
CallAction(action, payload, oracle) ==
  /\ LET st0 == Handler(oracle) IN
     Commit(action, NoMessage, payload, st0, Invoke(st0, action, payload))
  /\ UNCHANGED <<srvListeners, unloaded>>

(***************************************************************************)
(* Inputs                                                                  *)
(***************************************************************************)
KeyArrays(K, n) == {StrArr(s) : s \in SeqsUpTo(K, n)}
PairArrays(K, V, n) == {ObjArr(s) : s \in SeqsUpTo({Pair(k, v) : k \in K, v \in V}, n)}
Oracles(n) == [1..n -> BOOLEAN]

\* the (truthy) payloads an inbound message of a type carries
Payloads(type) ==
  CASE type \in {"GET", "DELETE"} -> KeyArrays(MsgKeys, MaxMsgPayload) \cup {Num}
    [] type = "SET" -> PairArrays(MsgKeys, MsgValues, MaxMsgPayload) \cup {Num}
    [] OTHER -> {Str("uuid")}

MessageTypes == {MOUNT, UNMOUNT, SYN, "GET", "SET", "DELETE", BogusType}

Message(origin, id, type, payload) ==
  [origin |-> origin, data |-> Serialize(Request("uuid", id, type, payload))]

\* the message events of the environment: every type with every payload of
\* the type from every origin, and one message for each way of being
\* dropped before the dispatch (no origin, no data, a falsy id, type or
\* payload)
InboundMessages ==
  UNION {{Message(o, id, t, p) : o \in Origins, id \in MsgIds, p \in Payloads(t)} :
         t \in MessageTypes}
  \cup {Message(o, 0, SYN, Str("uuid")) : o \in Origins}
  \cup {Message(o, 7, NoType, Str("uuid")) : o \in Origins}
  \cup {Message(o, 7, "GET", Undefined) : o \in Origins}
  \cup {[origin |-> o, data |-> NoData] : o \in Origins}
  \cup {Message(NoOrigin, 7, SYN, Str("uuid"))}

PayloadLen(message) ==
  IF message.data = NoData THEN 0
  ELSE Len(Deserialize(message.data).payload.val)

Pools == SeqsUpTo(PoolOrigins, MaxPool)

EmptyStore == [k \in Keys |-> null]

NoStep ==
  [op |-> "none", message |-> NoMessage, arg |-> Undefined, oracle |-> <<>>,
   obsBefore |-> <<>>, storeBefore |-> EmptyStore, emitted |-> <<>>,
   action |-> "none", calls |-> <<>>, ret |-> Undefined, thrown |-> null,
   caught |-> null]

\* new Observable({ origins })
ObservableConstructed ==
  /\ pool \in Pools
  /\ observatory = <<>>
  /\ srvListeners = {}
  /\ unloaded = FALSE
  /\ store = EmptyStore
  /\ srvLast = NoStep

(***************************************************************************)
(* Observer                                                                *)
(***************************************************************************)
\* the state a method of the Observer works on: sent collects the
\* postMessage calls, invoked the callbacks called, outcome how the method
\* ended
Method ==
  [preflight |-> preflight, responses |-> responses, messageId |-> messageId,
   sent |-> <<>>, invoked |-> <<>>, outcome |-> "returned"]

\* Observer.emit: draw an id, post the request to the frame, store the callback
Observer_emit(st, type, payload, cb) ==
  LET id == st.messageId IN
  [st EXCEPT !.messageId = NextID(id),
             !.sent = Append(@, [data |-> Serialize(Request(Uuid, id, type, payload)),
                                 target |-> ParentOrigin]),
             !.responses = MapSet(@, id, cb)]

\* mount(): emit is handed one object, which arrives as its type
mount(st) == Observer_emit(st, MountObject, Undefined, NoCallback)

\* a tick that takes the connection for lost until the next acknowledgment
pollTickReset(st) ==
  Observer_emit([st EXCEPT !.preflight = null], SYN, Str(Uuid), OnAcknowledge)

\* the callback of setInterval in poll()
pollTick(st) == Observer_emit(st, SYN, Str(Uuid), OnAcknowledge)

\* calling a stored callback: a missing one is not a function, cbThrows
\* throws, the others return
CallThrows(cb) == cb \in {NoCallback, "cbThrows"}
Invoked(st, id, cb, result, error) ==
  IF cb = NoCallback THEN st
  ELSE [st EXCEPT !.invoked = Append(@, [id |-> id, cb |-> cb, result |-> result,
                                         error |-> error])]

\* recv that handles an acknowledgment before looking the id up
recvAckFirst(st, message) ==
  IF message.origin # ParentOrigin \/ ~IsString(message.data) THEN st
  ELSE LET response == Deserialize(message.data)
           id == response.id
           result == response.result
           error == response.error IN
       IF id = NullId \/ (~Truthy(result) /\ error = null) THEN st
       ELSE IF id = DESTROY_ID /\ result = Str(CLOSE)
       THEN [st EXCEPT !.preflight = null]
       ELSE IF result = Str(ACK)
       THEN [st EXCEPT !.preflight = CONN_FULFILLED,
                       !.responses = MapDelete(@, id)]
       ELSE IF ~MapHas(st.responses, id) THEN st
       ELSE LET cb == MapGet(st.responses, id)
                called == Invoked(st, id, cb, result, error) IN
            IF CallThrows(cb)
            THEN [called EXCEPT !.outcome = "threw"]
            ELSE [called EXCEPT !.responses = MapDelete(@, id)]

\* recv that drops every pending request when the close notice arrives
recvCloseFlush(st, message) ==
  IF message.origin # ParentOrigin \/ ~IsString(message.data) THEN st
  ELSE LET response == Deserialize(message.data)
           id == response.id
           result == response.result
           error == response.error IN
       IF id = NullId \/ (~Truthy(result) /\ error = null) THEN st
       ELSE IF id = DESTROY_ID /\ result = Str(CLOSE)
       THEN [st EXCEPT !.preflight = null, !.responses = <<>>]
       ELSE IF ~MapHas(st.responses, id) THEN st
       ELSE IF result = Str(ACK)
       THEN [st EXCEPT !.preflight = CONN_FULFILLED,
                       !.responses = MapDelete(@, id)]
       ELSE LET cb == MapGet(st.responses, id)
                called == Invoked(st, id, cb, result, error) IN
            IF CallThrows(cb)
            THEN [called EXCEPT !.outcome = "threw"]
            ELSE [called EXCEPT !.responses = MapDelete(@, id)]

\* recv that also hands an acknowledgment to the stored callback
recvAckInvokes(st, message) ==
  IF message.origin # ParentOrigin \/ ~IsString(message.data) THEN st
  ELSE LET response == Deserialize(message.data)
           id == response.id
           result == response.result
           error == response.error IN
       IF id = NullId \/ (~Truthy(result) /\ error = null) THEN st
       ELSE IF id = DESTROY_ID /\ result = Str(CLOSE)
       THEN [st EXCEPT !.preflight = null]
       ELSE IF ~MapHas(st.responses, id) THEN st
       ELSE LET cb == MapGet(st.responses, id)
                acked == IF result = Str(ACK)
                         THEN [st EXCEPT !.preflight = CONN_FULFILLED]
                         ELSE st
                called == Invoked(acked, id, cb, result, error) IN
            IF CallThrows(cb)
            THEN [called EXCEPT !.outcome = "threw"]
            ELSE [called EXCEPT !.responses = MapDelete(@, id)]

\* recv that accepts a message of any origin
recvAnyOrigin(st, message) ==
  IF ~IsString(message.data) THEN st
  ELSE LET response == Deserialize(message.data)
           id == response.id
           result == response.result
           error == response.error IN
       IF id = NullId \/ (~Truthy(result) /\ error = null) THEN st
       ELSE IF id = DESTROY_ID /\ result = Str(CLOSE)
       THEN [st EXCEPT !.preflight = null]
       ELSE IF ~MapHas(st.responses, id) THEN st
       ELSE IF result = Str(ACK)
       THEN [st EXCEPT !.preflight = CONN_FULFILLED,
                       !.responses = MapDelete(@, id)]
       ELSE LET cb == MapGet(st.responses, id)
                called == Invoked(st, id, cb, result, error) IN
            IF CallThrows(cb)
            THEN [called EXCEPT !.outcome = "threw"]
            ELSE [called EXCEPT !.responses = MapDelete(@, id)]

recv(st, message) ==
  IF message.origin # ParentOrigin \/ ~IsString(message.data) THEN st
  ELSE LET response == Deserialize(message.data)
           id == response.id
           result == response.result
           error == response.error IN
       IF id = NullId \/ (~Truthy(result) /\ error = null) THEN st
       ELSE IF id = DESTROY_ID /\ result = Str(CLOSE)
       THEN [st EXCEPT !.preflight = null]
       ELSE IF ~MapHas(st.responses, id) THEN st
       ELSE IF result = Str(ACK)
       THEN [st EXCEPT !.preflight = CONN_FULFILLED,
                       !.responses = MapDelete(@, id)]
       ELSE LET cb == MapGet(st.responses, id)
                called == Invoked(st, id, cb, result, error) IN
            IF CallThrows(cb)
            THEN [called EXCEPT !.outcome = "threw"]
            ELSE [called EXCEPT !.responses = MapDelete(@, id)]

\* sequence that resolves whatever the preflight flag says
sequenceUngated(st) == [st EXCEPT !.outcome = "resolved"]

sequence(st) ==
  IF st.preflight = CONN_FULFILLED
  THEN [st EXCEPT !.outcome = "resolved"]
  ELSE [st EXCEPT !.outcome = "rejected"]

\* mustBeArray(keys): a contract violation unless keys is an array
mustBeArray(st, arg) ==
  IF IsArray(arg) THEN st ELSE [st EXCEPT !.outcome = "threw"]

\* get that hands its argument to emit without validating it
Observer_getUnchecked(st, keys, cb) == Observer_emit(st, QUERY_TYPES.GET, keys, cb)

Observer_get(st, keys, cb) ==
  LET checked == mustBeArray(st, keys) IN
  IF checked.outcome = "threw" THEN checked
  ELSE Observer_emit(checked, QUERY_TYPES.GET, keys, cb)

Observer_set(st, pairs, cb) ==
  LET checked == mustBeArray(st, pairs) IN
  IF checked.outcome = "threw" THEN checked
  ELSE Observer_emit(checked, QUERY_TYPES.SET, pairs, cb)

Observer_delete(st, keys, cb) ==
  LET checked == mustBeArray(st, keys) IN
  IF checked.outcome = "threw" THEN checked
  ELSE Observer_emit(checked, QUERY_TYPES.DELETE, keys, cb)

(***************************************************************************)
(* Observer: steps                                                         *)
(***************************************************************************)
CliRecord(op, message, arg, cb, st) ==
  [op |-> op, message |-> message, arg |-> arg, cb |-> cb,
   preflightBefore |-> preflight, responsesBefore |-> responses,
   messageIdBefore |-> messageId, sent |-> st.sent, invoked |-> st.invoked, outcome |-> st.outcome]

Count(invs, id) == IF id \in DOMAIN invs THEN invs[id] ELSE 0

\* the number of invocations per id, counted up to MaxCount
Counted(invs, invoked) ==
  IF invoked = <<>> THEN invs
  ELSE LET id == invoked[1].id IN
       [i \in DOMAIN invs \cup {id} |->
          IF i = id THEN IF Count(invs, id) < MaxCount THEN Count(invs, id) + 1
                         ELSE MaxCount
          ELSE invs[i]]

\* the fields of the Observer after a method has run
CliApply(op, message, arg, cb, st) ==
  /\ preflight' = st.preflight
  /\ responses' = st.responses
  /\ messageId' = st.messageId
  /\ invocations' = Counted(invocations, st.invoked)
  /\ cliLast' = CliRecord(op, message, arg, cb, st)

\* a step of the Observer with the environment as the other window
CliCommit(op, message, arg, cb, st) ==
  /\ CliApply(op, message, arg, cb, st)
  /\ UNCHANGED srvVars
  /\ UNCHANGED netVars

\* init(): renders the frame and starts the poll
ObserverInit ==
  /\ proxyEl = "null"
  /\ proxyEl' = "frame"
  /\ CliCommit("init", NoMessage, Undefined, NoCallback, Method)
  /\ UNCHANGED handle

\* the load event of the Observer's window
LoadEvent ==
  /\ proxyEl = "frame"
  /\ messageId <= MaxId
  /\ CliCommit("mount", NoMessage, Undefined, NoCallback, mount(Method))
  /\ UNCHANGED <<proxyEl, handle>>

\* a tick of the interval poll() set
PollTick ==
  /\ proxyEl = "frame"
  /\ messageId <= MaxId
  /\ CliCommit("poll", NoMessage, Undefined, OnAcknowledge, pollTick(Method))
  /\ UNCHANGED <<proxyEl, handle>>

\* a message event on the Observer's window
ObserverMessageEvent(message) ==
  /\ proxyEl = "frame"
  /\ CliCommit("recv", message, Undefined, NoCallback, recv(Method, message))
  /\ UNCHANGED <<proxyEl, handle>>

\* the application calls sequence() and keeps the handle it resolves to
Sequence ==
  /\ proxyEl = "frame"
  /\ LET st == sequence(Method) IN
     /\ CliCommit("sequence", NoMessage, Undefined, NoCallback, st)
     /\ handle' = (handle \/ st.outcome = "resolved")
  /\ UNCHANGED proxyEl

\* the application calls get, set or delete of a handle it holds
HandleCall(op, arg, cb) ==
  /\ handle
  /\ IsArray(arg) => messageId <= MaxId
  /\ LET st == CASE op = "get" -> Observer_get(Method, arg, cb)
                 [] op = "set" -> Observer_set(Method, arg, cb)
                 [] op = "delete" -> Observer_delete(Method, arg, cb)
     IN CliCommit(op, NoMessage, arg, cb, st)
  /\ UNCHANGED <<proxyEl, handle>>

\* the responses the environment may deliver to the Observer
Results ==
  {<<Str(ACK), null>>, <<Str(CLOSE), null>>, <<Arr(<<Entry("a", "v1")>>), null>>,
   <<Arr(<<Entry("a", null)>>), null>>, <<Null, "payload is not iterable">>,
   <<Null, null>>}

ObserverInbound ==
  {[origin |-> o, data |-> Serialize(Response(id, r[1], r[2]))] :
     o \in {ParentOrigin, "https://evil.example"},
     id \in (1..MaxId) \cup {DESTROY_ID, NullId}, r \in Results}
  \cup {[origin |-> ParentOrigin, data |-> NotAString]}

UserCallbacks == {"cb", "cbThrows", NoCallback}

\* first arguments of get, set and delete that are not arrays
NonArrays == {Undefined, Null, Str("a"), Num}

NoCall ==
  [op |-> "none", message |-> NoMessage, arg |-> Undefined, cb |-> NoCallback,
   preflightBefore |-> null, responsesBefore |-> <<>>,
   messageIdBefore |-> FirstId, sent |-> <<>>, invoked |-> <<>>,
   outcome |-> "returned"]

\* new Observer({ parentOrigin })
ObserverConstructed ==
  /\ preflight = null
  /\ responses = <<>>
  /\ messageId = FirstId
  /\ proxyEl = "null"
  /\ handle = FALSE
  /\ invocations = <<>>
  /\ cliLast = NoCall

ClientNext ==
  \/ ObserverInit
  \/ LoadEvent
  \/ PollTick
  \/ \E m \in ObserverInbound : ObserverMessageEvent(m)
  \/ Sequence
  \/ \E cb \in UserCallbacks : HandleCall("get", StrArr(<<"a">>), cb)
  \/ \E cb \in UserCallbacks : HandleCall("set", ObjArr(<<Pair("a", "v1")>>), cb)
  \/ \E cb \in UserCallbacks : HandleCall("delete", StrArr(<<"a">>), cb)
  \/ \E op \in {"get", "set", "delete"}, arg \in NonArrays : HandleCall(op, arg, "cb")

\* nothing has been posted yet
TransportIdle == toFrame = {} /\ toParent = {}

Init == ObservableConstructed /\ ObserverConstructed /\ TransportIdle

ServerNext ==
  \/ ObservableInit
  \/ \E m \in InboundMessages : \E oracle \in Oracles(PayloadLen(m)) :
       MessageEvent(m, oracle)
  \/ BeforeUnloadEvent

\* the Observable against every message the transport may deliver
ServerSpec == Init /\ [][ServerNext]_vars

\* the Observer against every message the transport may deliver
ClientInit == Init /\ pool = <<>>

ClientSpec == ClientInit /\ [][ClientNext]_vars

AdapterNext ==
  \/ \E p \in KeyArrays(Keys, MaxPayload) \cup {Num} : \E oracle \in Oracles(Len(p.val)) :
       CallAction("get", p, oracle)
  \/ \E p \in PairArrays(Keys, Values, MaxPayload) \cup {Num} : \E oracle \in Oracles(Len(p.val)) :
       CallAction("set", p, oracle)
  \/ \E p \in KeyArrays(Keys, MaxPayload) \cup {Num} : \E oracle \in Oracles(Len(p.val)) :
       CallAction("delete", p, oracle)

\* the storage actions alone, called on a constructed Observable
AdapterInit ==
  /\ pool = <<>>
  /\ observatory = <<>>
  /\ srvListeners = {}
  /\ unloaded = FALSE
  /\ store \in [Keys -> Values \cup {null}]
  /\ srvLast = NoStep
  /\ ObserverConstructed
  /\ TransportIdle

AdapterSpec == AdapterInit /\ [][AdapterNext]_vars

(***************************************************************************)
(* The two windows together: the Observer's page, of origin                *)
(* ObserverOrigin, embeds the frame of origin ParentOrigin in which the    *)
(* Observable runs.  window.postMessage(data, targetOrigin) queues a       *)
(* message event for the target window; the event is dispatched, with the  *)
(* origin of the posting window, when targetOrigin is the origin of the    *)
(* target window, and is discarded otherwise: a call without a             *)
(* targetOrigin is not dispatched to a window of another origin.  A        *)
(* message posted to the frame waits until init() of the Observable has    *)
(* registered its listener.                                                *)
(***************************************************************************)
ObserverOrigin == "https://app1.example"

Posted(calls) == {calls[i] : i \in 1..Len(calls)}

\* init() of the Observable in the frame the Observer rendered
SysObservableInit ==
  /\ proxyEl = "frame"
  /\ srvListeners = {}
  /\ ~unloaded
  /\ LET st0 == Handler(<<>>)
         st == IncorporateAll(st0, 0) IN
     /\ Apply("init", NoMessage, Undefined, st0, st)
     /\ toParent' = toParent \cup Posted(st.emitted)
  /\ srvListeners' = InitListeners(srvListeners)
  /\ UNCHANGED <<unloaded, cliVars, toFrame>>

\* the load event of the Observer's window
SysLoadEvent ==
  /\ proxyEl = "frame"
  /\ messageId <= MaxId
  /\ LET st == mount(Method) IN
     /\ CliApply("mount", NoMessage, Undefined, NoCallback, st)
     /\ toFrame' = toFrame \cup Posted(st.sent)
  /\ UNCHANGED <<proxyEl, handle, srvVars, toParent>>

\* a tick of the interval poll() set
SysPollTick ==
  /\ proxyEl = "frame"
  /\ messageId <= MaxId
  /\ LET st == pollTick(Method) IN
     /\ CliApply("poll", NoMessage, Undefined, OnAcknowledge, st)
     /\ toFrame' = toFrame \cup Posted(st.sent)
  /\ UNCHANGED <<proxyEl, handle, srvVars, toParent>>

\* the message event of a postMessage of the Observer, on the frame's window
DeliverToFrame ==
  \E m \in toFrame :
    /\ m.target = ParentOrigin
    /\ Listening(srvListeners, "message")
    /\ LET message == [origin |-> ObserverOrigin, data |-> m.data]
           st0 == Handler(<<>>)
           st == onMessage(st0, message) IN
       /\ Apply("onMessage", message, Undefined, st0, st)
       /\ toParent' = toParent \cup Posted(st.emitted)
    /\ toFrame' = toFrame \ {m}
    /\ UNCHANGED <<srvListeners, unloaded, cliVars>>

\* the message event of a postMessage of the Observable, on the Observer's
\* window
DeliverToParent ==
  \E m \in toParent :
    /\ m.target = ObserverOrigin
    /\ proxyEl = "frame"
    /\ LET message == [origin |-> ParentOrigin, data |-> m.data] IN
       CliApply("recv", message, Undefined, NoCallback, recv(Method, message))
    /\ toParent' = toParent \ {m}
    /\ UNCHANGED <<proxyEl, handle, srvVars, toFrame>>

\* a postMessage whose targetOrigin is not the origin of the Observer's
\* window is discarded
DiscardMismatch ==
  \E m \in toParent :
    /\ m.target # ObserverOrigin
    /\ toParent' = toParent \ {m}
    /\ UNCHANGED <<srvVars, cliVars, toFrame>>

LiveNext ==
  \/ ObserverInit
  \/ SysObservableInit
  \/ SysLoadEvent
  \/ SysPollTick
  \/ DeliverToFrame
  \/ DeliverToParent
  \/ DiscardMismatch

\* the origin of the Observer's page is in the pool of the Observable
LiveInit == Init /\ \E i \in 1..Len(pool) : pool[i] = ObserverOrigin

\* the Observer and the Observable exchanging messages, with a fair timer,
\* fair handlers and a transport that loses nothing
LiveSpec ==
  /\ LiveInit
  /\ [][LiveNext]_vars
  /\ WF_vars(ObserverInit) /\ WF_vars(SysObservableInit)
  /\ WF_vars(SysLoadEvent) /\ WF_vars(SysPollTick)
  /\ WF_vars(DeliverToFrame) /\ WF_vars(DeliverToParent)
  /\ WF_vars(DiscardMismatch)

Next == ServerNext \/ AdapterNext \/ ClientNext \/ LiveNext

Spec == Init /\ [][Next]_vars
(***************************************************************************)
(* Properties                                                              *)
(***************************************************************************)
\* the request of the message the last Observable step handled
Handled == Deserialize(srvLast.message.data)
\* the last Observable step was onMessage on a message that reached the
\* dispatch: it has an origin, data, and a truthy id, type and payload
WellFormed ==
  /\ srvLast.op = "onMessage"
  /\ srvLast.message.origin # NoOrigin
  /\ srvLast.message.data # NoData
  /\ ~FalsyId(Handled.id) /\ Handled.type # NoType /\ Truthy(Handled.payload)
Sender == srvLast.message.origin
InPool(origin) == \E i \in 1..Len(pool) : pool[i] = origin
Ack(id, origin) == [data |-> Serialize(Response(id, Str(ACK), null)), target |-> origin]
CloseNotice(origin) ==
  [data |-> Serialize(Response(DESTROY_ID, Str(CLOSE), null)), target |-> origin]

\* the response of the message the last Observer step received
Received == Deserialize(cliLast.message.data)
FromParent ==
  /\ cliLast.op = "recv"
  /\ cliLast.message.origin = ParentOrigin
  /\ IsString(cliLast.message.data)
Connected == preflight = CONN_FULFILLED
WasConnected == cliLast.preflightBefore = CONN_FULFILLED

\* C1: a get, set or delete made while the Observer is not Connected sends
\* no envelope, adds nothing to the responses registry and fails with a
\* connectivity error, also when it is made through a handle obtained
\* while the Observer was Connected.
C1_GatedOperations ==
  (cliLast.op \in {"get", "set", "delete"} /\ ~WasConnected)
    => /\ cliLast.sent = <<>>
       /\ responses = cliLast.responsesBefore
       /\ cliLast.outcome = "not connected"

\* C2: sequence() resolves to the handle exactly when the Observer is
\* Connected at the call and rejects otherwise; either way it sends nothing
\* and leaves the preflight flag, the responses registry and the id
\* generator as they were.
C2_SequenceGate ==
  cliLast.op = "sequence"
    => /\ cliLast.outcome \in {"resolved", "rejected"}
       /\ (cliLast.outcome = "resolved") <=> WasConnected
       /\ cliLast.outcome = "resolved" => handle
       /\ cliLast.sent = <<>>
       /\ cliLast.invoked = <<>>
       /\ preflight = cliLast.preflightBefore
       /\ responses = cliLast.responsesBefore

C2_Witness ==
  /\ cliLast.op = "sequence"
  /\ cliLast.outcome = "resolved"
  /\ cliLast.responsesBefore # <<>>

\* C3: the Observable invokes a storage action only for a message whose
\* origin is in the observatory when the message is handled; a message
\* from an origin that is neither incorporated nor in the pool causes no
\* storage call, no reply and no change of the observatory.
C3_OnlyIncorporatedDispatched ==
  srvLast.op = "onMessage"
    => /\ (srvLast.action # "none" \/ srvLast.calls # <<>>)
            => MapHas(srvLast.obsBefore, Sender)
       /\ (~MapHas(srvLast.obsBefore, Sender) /\ ~InPool(Sender))
            => /\ srvLast.action = "none"
               /\ srvLast.calls = <<>>
               /\ srvLast.emitted = <<>>
               /\ observatory = srvLast.obsBefore
               /\ store = srvLast.storeBefore

C3_Witness ==
  /\ WellFormed
  /\ Handled.type = "SET"
  /\ Len(Handled.payload.val) = 1
  /\ ~MapHas(srvLast.obsBefore, Sender)
  /\ ~InPool(Sender)
  /\ srvLast.obsBefore # <<>>

\* C4: a MOUNT message with id i from an origin of the pool that is not in
\* the observatory adds the origin to the observatory and is answered by
\* exactly one acknowledgment { id: i, result: ACK, error: null } to that
\* origin.
C4_MountIncorporates ==
  (WellFormed /\ Handled.type = MOUNT /\ InPool(Sender)
     /\ ~MapHas(srvLast.obsBefore, Sender))
    => /\ MapHas(observatory, Sender)
       /\ srvLast.emitted = <<Ack(Handled.id, Sender)>>

\* C5: incorporation is idempotent: incorporate, and a MOUNT message, for
\* an origin that is in the observatory leave the observatory (its
\* members, its size and their metadata) as it was, and incorporating an
\* origin a second time changes nothing the first time did not.
C5_IncorporateIdempotent ==
  /\ \A o \in Origins, id \in MsgIds :
       LET st == Handler(<<>>)
           once == incorporate(st, o, id)
           twice == incorporate(once, o, 0) IN
       /\ MapHas(observatory, o) => once.observatory = observatory
       /\ twice.observatory = once.observatory
       /\ Cardinality(MapKeys(once.observatory)) = Len(once.observatory)
  /\ (WellFormed /\ Handled.type = MOUNT /\ MapHas(srvLast.obsBefore, Sender))
       => observatory = srvLast.obsBefore
  /\ srvLast.op = "init"
       => /\ Len(observatory) = Cardinality(MapKeys(observatory))
          /\ MapKeys(observatory) = {pool[i] : i \in 1..Len(pool)}

C5_Witness ==
  /\ WellFormed
  /\ Handled.type = MOUNT
  /\ MapHas(srvLast.obsBefore, Sender)
  /\ Len(srvLast.obsBefore) = 2

\* C6: a response from the parent origin whose id is not the teardown
\* sentinel and is not a key of the responses registry leaves the
\* registry and the preflight flag unchanged, invokes no callback and
\* raises no error, whatever its result.
C6_UnknownIdDiscarded ==
  (FromParent /\ Received.id # DESTROY_ID
     /\ ~MapHas(cliLast.responsesBefore, Received.id))
    => /\ responses = cliLast.responsesBefore
       /\ preflight = cliLast.preflightBefore
       /\ cliLast.invoked = <<>>
       /\ cliLast.outcome = "returned"

C6_Witness ==
  /\ FromParent
  /\ Received.id \in 1..MaxId
  /\ Received.result = Str(ACK)
  /\ ~MapHas(cliLast.responsesBefore, Received.id)
  /\ cliLast.responsesBefore # <<>>
  /\ ~WasConnected

\* C7: the callback stored for an id is invoked at most once, whatever
\* responses are lost, duplicated or reordered, and the entry of the id
\* leaves the registry in the step that invokes the callback.
C7_CallbackAtMostOnce ==
  /\ \A id \in DOMAIN invocations : invocations[id] <= 1
  /\ (cliLast.op = "recv" /\ cliLast.invoked # <<>>)
       => ~MapHas(responses, cliLast.invoked[1].id)

\* C8: get, set and delete return one entry per element of their input,
\* in the order of the input and keyed by the element's key; an element
\* whose localStorage call throws gets null (get) or false (set, delete),
\* every other element is processed and gets the stored value (get) or
\* true (set, delete), and no exception leaves the action.
ElementKey(action, element) == IF action = "set" THEN element.key ELSE element
Outcome(action, key, threw) ==
  CASE action = "get" -> IF threw THEN null ELSE srvLast.storeBefore[key]
    [] OTHER -> IF threw THEN "false" ELSE "true"

C8_PerElementIsolation ==
  (srvLast.op \in {"get", "set", "delete"} /\ IsArray(srvLast.arg))
    => LET input == srvLast.arg.val
           n == Len(input) IN
       /\ srvLast.thrown = null
       /\ srvLast.ret.kind = "array of entries"
       /\ Len(srvLast.ret.val) = n
       /\ Len(srvLast.calls) = n
       /\ \A i \in 1..n :
            LET key == ElementKey(srvLast.op, input[i]) IN
            /\ srvLast.ret.val[i].key = key
            /\ srvLast.ret.val[i].val = Outcome(srvLast.op, key, srvLast.oracle[i])
            /\ srvLast.calls[i].key = key

C8_Witness ==
  /\ srvLast.op = "get"
  /\ srvLast.arg = StrArr(<<"a", "b">>)
  /\ srvLast.oracle = <<TRUE, FALSE>>
  /\ srvLast.storeBefore["b"] = "v2"

C10_CloseBroadcast ==
  srvLast.op = "beforeDestroy"
    => /\ \A o \in Origins \cup {NoOrigin, NoTarget} :
            Cardinality({i \in 1..Len(srvLast.emitted) : srvLast.emitted[i].target = o})
              = IF MapHas(srvLast.obsBefore, o) THEN 1 ELSE 0
       /\ \A i \in 1..Len(srvLast.emitted) :
            srvLast.emitted[i] = CloseNotice(srvLast.emitted[i].target)

C10_Witness ==
  /\ srvLast.op = "beforeDestroy"
  /\ Len(srvLast.obsBefore) = 1
  /\ Len(srvLast.emitted) = 1
  /\ Cardinality({pool[i] : i \in 1..Len(pool)}) = 2

\* C11: once beforeDestroy has run the Observable no longer listens: a
\* message handled afterwards, whatever its type and origin, produces no
\* reply, no storage call and no change of the observatory.
C11_StopsListening ==
  (unloaded /\ srvLast.op = "onMessage")
    => /\ srvLast.emitted = <<>>
       /\ srvLast.calls = <<>>
       /\ srvLast.action = "none"
       /\ observatory = srvLast.obsBefore

\* C12: a get, set or delete whose first argument is not an array signals
\* a contract violation at once: it sends no envelope, draws no id, stores
\* nothing in the responses registry, invokes no callback and leaves the
\* preflight flag as it was.
C12_NonArrayRejected ==
  (cliLast.op \in {"get", "set", "delete"} /\ ~IsArray(cliLast.arg))
    => /\ cliLast.outcome = "threw"
       /\ cliLast.sent = <<>>
       /\ cliLast.invoked = <<>>
       /\ responses = cliLast.responsesBefore
       /\ messageId = cliLast.messageIdBefore
       /\ preflight = cliLast.preflightBefore

C12_Witness ==
  /\ cliLast.op = "get"
  /\ cliLast.arg = Str("a")
  /\ cliLast.outcome = "threw"
  /\ cliLast.responsesBefore # <<>>
  /\ WasConnected

\* the last Observer step received the close notice from the parent origin
ClosedByParent ==
  /\ FromParent
  /\ Received.id = DESTROY_ID
  /\ Received.result = Str(CLOSE)

\* C13: the heartbeat connects the Observer whose origin is in the pool of
\* a running Observable: once a SYN of poll() has been handled by the
\* Observable for the incorporated origin of the Observer, and the
\* transport has dispatched every message posted, the acknowledgment has
\* reached the Observer and it is Connected.
C13_HeartbeatConnects ==
  (/\ WellFormed
   /\ Handled.type = SYN
   /\ Sender = ObserverOrigin
   /\ MapHas(srvLast.obsBefore, Sender)
   /\ ~unloaded
   /\ toFrame = {}
   /\ toParent = {})
    => Connected

\* the same as a temporal formula: the Observer is eventually Connected
EventuallyConnected == <>Connected

\* C14: a response from the parent origin with the sentinel id and the
\* CLOSE result sets the preflight flag back to null, invokes no stored
\* callback and leaves the responses registry exactly as it was.
C14_CloseResets ==
  ClosedByParent
    => /\ preflight = null
       /\ cliLast.invoked = <<>>
       /\ responses = cliLast.responsesBefore
       /\ cliLast.outcome = "returned"

C14_Witness ==
  /\ ClosedByParent
  /\ WasConnected
  /\ Len(cliLast.responsesBefore) >= 1
  /\ \E i \in 1..Len(cliLast.responsesBefore) : cliLast.responsesBefore[i].value = "cb"

\* C15: a Connected Observer stays Connected through every step that is
\* not the receipt of a close notice from the parent origin: ticks of the
\* heartbeat, responses of any id and result, messages of other origins,
\* sequence() and get / set / delete calls.
C15_StaysConnected ==
  (WasConnected /\ ~ClosedByParent) => Connected

C15_Witness ==
  /\ WasConnected
  /\ cliLast.op = "poll"
  /\ cliLast.sent # <<>>
  /\ Connected

C17_SynAcknowledged ==
  (WellFormed /\ Handled.type = SYN /\ MapHas(srvLast.obsBefore, Sender))
    => /\ srvLast.emitted = <<Ack(Handled.id, Sender)>>
       /\ observatory = srvLast.obsBefore

C19_MountEnvelope ==
  cliLast.op = "mount"
    => /\ cliLast.sent =
            <<[data |-> Serialize(Request(Uuid, cliLast.messageIdBefore, MOUNT, Str(Uuid))),
               target |-> ParentOrigin]>>
       /\ messageId = NextID(cliLast.messageIdBefore)
       /\ ~MapHas(cliLast.responsesBefore, cliLast.messageIdBefore)

\* C20: in every state of the Observable, after init, MOUNT, UNMOUNT,
\* SYN and action messages and beforeDestroy, every origin of the
\* observatory is an element of the pool and the observatory holds at
\* most one entry per origin.
C20_ObservatoryWithinPool ==
  /\ \A i \in 1..Len(observatory) :
       /\ InPool(observatory[i].key)
       /\ observatory[i].value = [origin |-> observatory[i].key]
  /\ \A i, j \in 1..Len(observatory) :
       observatory[i].key = observatory[j].key => i = j
  /\ \A o \in Origins \cup {NoOrigin} :
       LET once == incorporate(Handler(<<>>), o, 7) IN
       /\ MapHas(once.observatory, o) => InPool(o)
       /\ Cardinality(MapKeys(once.observatory)) = Len(once.observatory)

C20_Witness ==
  /\ WellFormed
  /\ Handled.type = MOUNT
  /\ Sender = "https://evil.example"
  /\ unloaded
  /\ Len(observatory) = 2

\* the messages delivered to the Observer from an origin other than the
\* parent origin
ForeignInbound == {m \in ObserverInbound : m.origin # ParentOrigin}

\* C21: a message whose origin is not the parent origin, whatever its id
\* and result (ACK, the close notice, the id of a pending request),
\* changes neither the preflight flag nor the responses registry nor the
\* id generator and invokes no callback: in every reachable state recv
\* maps the Observer state to itself for every such message, so two runs
\* that differ only in such messages reach the same Observer state.
C21_ForeignOriginIgnored ==
  /\ (cliLast.op = "recv" /\ cliLast.message.origin # ParentOrigin)
       => /\ preflight = cliLast.preflightBefore
          /\ responses = cliLast.responsesBefore
          /\ messageId = cliLast.messageIdBefore
          /\ cliLast.invoked = <<>>
          /\ cliLast.sent = <<>>
          /\ cliLast.outcome = "returned"
  /\ \A f \in ForeignInbound : recv(Method, f) = Method

C21_Witness ==
  /\ cliLast.op = "recv"
  /\ cliLast.message.origin = "https://evil.example"
  /\ Received.id = DESTROY_ID
  /\ Received.result = Str(CLOSE)
  /\ WasConnected
  /\ \E i \in 1..Len(cliLast.responsesBefore) : cliLast.responsesBefore[i].value = "cb"
====
